---- MODULE Spec2Model ----
(***************************************************************************)
(* Recipe API component (demo/recipe-system/components/api/src/lib.rs).    *)
(*                                                                         *)
(* The component answers HTTP requests against one key-value bucket        *)
(* ("recipes").  A record lives under key "recipe:<id>", the ID Index lives *)
(* under key "_recipe_ids".  Every request is handled by its own           *)
(* invocation of Guest::handle; the invocations share nothing but the      *)
(* bucket, so the model runs up to MaxProcs invocations side by side and   *)
(* lets them interleave at the granularity of one bucket call per step.    *)
(*                                                                         *)
(* Specifications:                                                         *)
(*   Spec         every kind of request, any interleaving, from the empty  *)
(*                bucket, every bucket call succeeding                     *)
(*   SpecCreates  the same with GET and POST requests only                 *)
(*   SpecFaults   Spec with bucket calls that may fail                     *)
(*   SpecForeign  requests one at a time, bucket calls that may fail, on   *)
(*                buckets that may hold entries without records and bytes  *)
(*                the component did not write                              *)
(*                                                                         *)
(* Bytes are modelled by their content class:                              *)
(*   [fmt |-> "json", shape |-> "object", doc |-> <fields>]  a JSON object *)
(*   [fmt |-> "json", shape |-> "array", items |-> <strings>] a JSON array *)
(*   [fmt |-> "text"]    valid UTF-8 that is not JSON                      *)
(*   [fmt |-> "binary"]  bytes that are not valid UTF-8                    *)
(* A Recipe is modelled by the fields the handlers read or write (id,      *)
(* created_at, updated_at), one content field (name) and one width-checked *)
(* field (servings: u8); the remaining fields of RecipeJson are carried    *)
(* through the codec untouched and are left out.                           *)
(***************************************************************************)
EXTENDS Integers, Sequences, FiniteSets, TLC

(* ---------------------------- bounds ---------------------------------- *)

\* Number of invocations of Guest::handle that may be in flight together.
MaxProcs == 2

\* Number of requests that arrive in one behaviour.
MaxRequests == 3

\* The wall clock reads a value in 1..MaxClock (seconds since the epoch).
MaxClock == 1

Procs == 1..MaxProcs
Times == 1..MaxClock

(* ---------------------------- inputs ----------------------------------- *)

\* Ids a client names in a path or in a body; the second one is also the id
\* create generates at clock value 1.
Ids == {"a", "recipe_1"}

\* Largest value of servings: u8.
U8Max == 255

Methods == {"GET", "POST", "PUT", "DELETE", "PATCH"}

\* path_with_query() as a sequence of pieces; "/" and "?" are the separator
\* characters, every other piece is a run of ordinary characters.
NoPath == <<"-none-">>
RawPaths ==
  { NoPath,
    <<"/", "api", "/", "recipes">>,
    <<"/", "/", "api", "/", "recipes", "/", "?", "page", "/", "a">>,
    <<"/", "api", "/", "recipes", "/", "a">>,
    <<"/", "api", "/", "recipes", "/", "recipe_1", "?", "x">>,
    <<"/", "api", "/", "recipes", "/", "a", "/", "x">>,
    <<"/", "health">>,
    <<"/", "nope">> }

\* Request bodies.  A well-formed payload carries an id (possibly empty), a
\* name and client-chosen timestamps; the bodies that do not decode as a
\* RecipeJson are: not JSON at all, an object without the required field id,
\* an object whose servings does not fit u8, and a body whose stream cannot
\* be opened.
Payload(id, v) ==
  [id |-> id, name |-> IF v = 1 THEN "x" ELSE "y",
   created_at |-> IF v = 1 THEN 0 ELSE 7,
   updated_at |-> IF v = 1 THEN 0 ELSE 9,
   servings |-> 4]
JsonObject(doc) == [fmt |-> "json", shape |-> "object", doc |-> doc]
JsonArray(items) == [fmt |-> "json", shape |-> "array", items |-> items]
NotJson == [fmt |-> "text"]
NotUtf8 == [fmt |-> "binary"]
Unreadable == [fmt |-> "unreadable"]
GoodBodies ==
  { JsonObject(Payload("", 1)), JsonObject(Payload("a", 1)),
    JsonObject(Payload("a", 2)), JsonObject(Payload("recipe_1", 2)) }
BadBodies ==
  { NotJson, Unreadable,
    JsonObject([name |-> "x", created_at |-> 0, updated_at |-> 0, servings |-> 4]),
    JsonObject([Payload("a", 1) EXCEPT !.servings = 300]) }
Bodies == GoodBodies \cup BadBodies
NoBody == [fmt |-> "none"]

(* ---------------------------- codec ------------------------------------ *)

Ok(v) == [tag |-> "Ok", val |-> v]
Err(e) == [tag |-> "Err", val |-> e]
Some(v) == [tag |-> "Some", val |-> v]
None == [tag |-> "None", val |-> "-"]

RecipeFields == {"id", "name", "created_at", "updated_at", "servings"}
NoRecipe == [id |-> "", name |-> "", created_at |-> 0, updated_at |-> 0, servings |-> 0]

\* A decoder that does not check the range of servings.
from_slice_recipe_unchecked(bytes) ==
  IF bytes.fmt # "json" THEN Err("Invalid JSON")
  ELSE IF bytes.shape # "object" THEN Err("Invalid JSON")
  ELSE IF ~(RecipeFields \subseteq DOMAIN bytes.doc) THEN Err("Invalid JSON")
  ELSE Ok([f \in RecipeFields |-> bytes.doc[f]])

\* serde_json::from_slice::<RecipeJson>: the bytes must be a JSON object that
\* has every required field, with servings in the range of u8; fields the
\* struct does not name are dropped.
from_slice_recipe(bytes) ==
  IF bytes.fmt # "json" THEN Err("Invalid JSON")
  ELSE IF bytes.shape # "object" THEN Err("Invalid JSON")
  ELSE IF ~(RecipeFields \subseteq DOMAIN bytes.doc) THEN Err("Invalid JSON")
  ELSE IF bytes.doc.servings \notin 0..U8Max THEN Err("Invalid JSON")
  ELSE Ok([f \in RecipeFields |-> bytes.doc[f]])

\* serde_json::to_vec(&recipe)
to_vec_recipe(recipe) == JsonObject(recipe)

\* serde_json::to_vec(&ids)
to_vec_ids(ids) == JsonArray(ids)

\* String::from_utf8(data)? followed by serde_json::from_str(..).unwrap_or_default():
\* bytes that are not UTF-8 are an error, any text that is not a JSON array of
\* strings is the empty list.
load_ids(data) ==
  IF data.fmt = "binary" THEN Err("Invalid UTF-8")
  ELSE IF data.fmt # "json" THEN Ok(<<>>)
  ELSE IF data.shape # "array" THEN Ok(<<>>)
  ELSE Ok(data.items)

(* ---------------------------- bucket ----------------------------------- *)

IndexKey == "_recipe_ids"

\* format!("recipe:{}", id)
record_key(id) == "recipe:" \o id

\* format!("recipe_{}", current_timestamp())
generated_id(t) == "recipe_" \o ToString(t)

\* Every id a record can be stored under in this model.
AllIds == Ids \cup { generated_id(t) : t \in Times }

bucket_get(b, key) == IF key \in DOMAIN b THEN Some(b[key]) ELSE None
bucket_set(b, key, data) == [k \in (DOMAIN b) \cup {key} |-> IF k = key THEN data ELSE b[k]]
bucket_delete(b, key) == [k \in (DOMAIN b) \ {key} |-> b[k]]

EmptyBucket == [k \in {} |-> NotJson]

(* ---------------------------- sequences -------------------------------- *)

\* A membership test that never finds the id.
contains_never(ids, id) == FALSE

\* ids.contains(&id)
contains(ids, id) == \E i \in 1..Len(ids) : ids[i] = id

\* A push that forgets the ids read from the Index.
push_id_alone(ids, id) == <<id>>

\* ids.push(id.to_string())
push_id(ids, id) == Append(ids, id)

\* A retain that empties the list.
RECURSIVE retain_clears(_, _)
retain_clears(ids, id) == <<>>

\* A retain that removes nothing.
RECURSIVE retain_nothing(_, _)
retain_nothing(ids, id) == ids

\* ids.retain(|i| i != id)
RECURSIVE retain(_, _)
retain(ids, id) ==
  IF ids = <<>> THEN <<>>
  ELSE IF Head(ids) = id THEN retain(Tail(ids), id)
  ELSE <<Head(ids)>> \o retain(Tail(ids), id)

(* ---------------------------- request parsing --------------------------- *)

\* path_with_query().unwrap_or("/"), then split('?') and parts[0]
RECURSIVE before_query(_)
before_query(raw) ==
  IF raw = <<>> THEN <<>>
  ELSE IF Head(raw) = "?" THEN <<>>
  ELSE <<Head(raw)>> \o before_query(Tail(raw))

\* path.split('/').filter(|s| !s.is_empty())
RECURSIVE split_slash(_, _)
split_slash(path, cur) ==
  IF path = <<>> THEN (IF cur = "" THEN <<>> ELSE <<cur>>)
  ELSE IF Head(path) = "/"
       THEN (IF cur = "" THEN <<>> ELSE <<cur>>) \o split_slash(Tail(path), "")
       ELSE split_slash(Tail(path), cur \o Head(path))

path_segments(raw) ==
  split_slash(before_query(IF raw = NoPath THEN <<"/">> ELSE raw), "")

(* ---------------------------- state ------------------------------------ *)

VARIABLES
  bucket,    \* the bucket "recipes": a function from the keys present to bytes
  proc,      \* proc[p]: the invocation of Guest::handle running in slot p;
             \* next to the locals of the code it carries history fields:
             \*   solo    no other request has been in flight with this one
             \*   lone    (of a delete) no create, update or delete has been in
             \*           flight with it
             \*   reads, writes   the keys it has read and written
             \*   calls   the number of bucket calls it has made
             \*   failed  the keys on which a bucket call of it failed
             \*   pre     what the bucket held for its id at its first write
             \*   mid     the shapes of the bucket a delete passed through
             \*   seen    the creates of its id answered before a get arrived
  served,    \* number of requests that have arrived
  prev,      \* history: the create, update or delete that returned last, if it
             \* ran alone and succeeded, or the create that returned last if it
             \* ran alone and failed after its record write
  raced,     \* history: a create or delete started while another was running
  blind,     \* history: an update wrote a key that held no record
  stored,    \* history: <<id, recipe>> of every record written by a create
  returned   \* history: <<id, recipe>> of every create answered 201

vars == <<bucket, proc, served, prev, raced, blind, stored, returned>>

\* A slot in which no invocation runs.
Idle ==
  [pc |-> "idle", method |-> "", segs |-> <<>>, body |-> NoBody,
   op |-> "none", id |-> "", recipe |-> NoRecipe, ids |-> <<>>, acc |-> <<>>,
   status |-> 0, solo |-> TRUE, reads |-> {}, writes |-> {}, seen |-> {},
   calls |-> 0, failed |-> {}, lone |-> TRUE, pre |-> {}, mid |-> {}]

NoPrev == [op |-> "none", id |-> "", before |-> "", pre |-> {}]

\* send_response / send_json_response: the invocation has set its response.
Reply(st, status) == [st EXCEPT !.pc = "done", !.status = status]

(* ---------------------------- routing ---------------------------------- *)

\* read_request_body: the bytes of the body, unless the body or its stream
\* cannot be obtained.
read_request_body(body) ==
  IF body = Unreadable THEN Err("Failed to consume body") ELSE Ok(body)

IsItemPath(segs) == Len(segs) = 3 /\ segs[1] = "api" /\ segs[2] = "recipes"
IsListPath(segs) == segs = <<"api", "recipes">>

\* handle_get up to its first bucket call.
handle_get(st, segs) ==
  IF IsListPath(segs) THEN [st EXCEPT !.op = "list", !.pc = "list_load"]
  ELSE IF IsItemPath(segs) THEN [st EXCEPT !.op = "get", !.id = segs[3], !.pc = "get_read"]
  ELSE IF segs = <<"health">> THEN Reply([st EXCEPT !.op = "health"], 200)
  ELSE Reply(st, 404)

\* handle_post up to its first bucket call.
handle_post(st, segs, body) ==
  IF IsListPath(segs)
  THEN LET read == read_request_body(body)
           decoded == from_slice_recipe(read.val)
           me == [st EXCEPT !.op = "create", !.body = body]
       IN IF read.tag = "Err" THEN Reply(me, 400)
          ELSE IF decoded.tag = "Ok"
          THEN [me EXCEPT !.recipe = decoded.val, !.pc = "create_store"]
          ELSE Reply(me, 400)
  ELSE Reply(st, 404)

\* A handle_put that stores the id the body carries.
handle_put_body_id(st, segs, body) ==
  IF IsItemPath(segs)
  THEN LET read == read_request_body(body)
           decoded == from_slice_recipe(read.val)
           me == [st EXCEPT !.op = "update", !.id = segs[3], !.body = body]
       IN IF read.tag = "Err" THEN Reply(me, 400)
          ELSE IF decoded.tag = "Ok"
          THEN [me EXCEPT !.recipe = decoded.val, !.pc = "update_store"]
          ELSE Reply(me, 400)
  ELSE Reply(st, 404)

\* handle_put up to its first bucket call.
handle_put(st, segs, body) ==
  IF IsItemPath(segs)
  THEN LET read == read_request_body(body)
           decoded == from_slice_recipe(read.val)
           me == [st EXCEPT !.op = "update", !.id = segs[3], !.body = body]
       IN IF read.tag = "Err" THEN Reply(me, 400)
          ELSE IF decoded.tag = "Ok"
          THEN [me EXCEPT !.recipe = [decoded.val EXCEPT !.id = segs[3]],
                          !.pc = "update_store"]
          ELSE Reply(me, 400)
  ELSE Reply(st, 404)

\* A handle_delete that matches on the first three segments only.
handle_delete_prefix(st, segs) ==
  IF Len(segs) >= 3 /\ segs[1] = "api" /\ segs[2] = "recipes"
  THEN [st EXCEPT !.op = "delete", !.id = segs[3], !.pc = "delete_remove"]
  ELSE Reply(st, 404)

\* handle_delete up to its first bucket call.
handle_delete(st, segs) ==
  IF IsItemPath(segs)
  THEN [st EXCEPT !.op = "delete", !.id = segs[3], !.pc = "delete_remove"]
  ELSE Reply(st, 404)

\* Guest::handle: parse the path, dispatch on the method.
dispatch(st, method, raw, body) ==
  LET segs == path_segments(raw)
      me == [st EXCEPT !.method = method, !.segs = segs]
  IN CASE method = "GET" -> handle_get(me, segs)
       [] method = "POST" -> handle_post(me, segs, body)
       [] method = "PUT" -> handle_put(me, segs, body)
       [] method = "DELETE" -> handle_delete(me, segs)
       [] OTHER -> Reply(me, 405)

InFlight(q) == proc[q].pc \notin {"idle", "done"}
IsWriter(st) == st.op \in {"create", "delete"} /\ st.pc \notin {"idle", "done"}
Mutates(st) == st.op \in {"create", "update", "delete"} /\ st.pc \notin {"idle", "done"}

\* A request arrives in the lowest free slot and Guest::handle runs up to the
\* first bucket call (or to the response, when there is none).
handle(p, methods) ==
  /\ proc[p].pc = "idle"
  /\ \A q \in Procs : q < p => proc[q].pc # "idle"
  /\ served < MaxRequests
  /\ \E method \in methods, raw \in RawPaths :
     \E body \in (IF method \in {"POST", "PUT"} THEN Bodies ELSE {NoBody}) :
       LET alone == \A q \in Procs : q # p => proc[q].pc = "idle"
           quiet == \A q \in Procs : q # p => ~Mutates(proc[q])
           st == dispatch([Idle EXCEPT !.solo = alone], method, raw, body)
           me == IF st.op = "get"
                 THEN [st EXCEPT !.seen = { e \in returned : e[1] = st.id }]
                 ELSE IF st.op = "delete" THEN [st EXCEPT !.lone = quiet]
                 ELSE st
       IN /\ proc' = [q \in Procs |->
                        IF q = p THEN me
                        ELSE IF proc[q].pc = "idle" THEN proc[q]
                        ELSE IF proc[q].op = "delete"
                        THEN [proc[q] EXCEPT !.solo = FALSE, !.lone = @ /\ ~Mutates(me)]
                        ELSE [proc[q] EXCEPT !.solo = FALSE]]
          /\ raced' = (raced \/ (IsWriter(me) /\ \E q \in Procs : q # p /\ IsWriter(proc[q])))
  /\ served' = served + 1
  /\ UNCHANGED <<bucket, prev, blind, stored, returned>>

(* ---------------------------- recipe store ------------------------------ *)

\* A get_recipe that looks under a key no record is stored under.
get_recipe_wrong_key(b, id) ==
  IF ("recipes:" \o id) \in DOMAIN b THEN Ok(Some(NoRecipe)) ELSE Ok(None)

\* get_recipe(id): one read of the bucket and the decoding of what it holds.
get_recipe(b, id) ==
  LET data == bucket_get(b, record_key(id))
  IN IF data.tag = "None" THEN Ok(None)
     ELSE LET decoded == from_slice_recipe(data.val)
          IN IF decoded.tag = "Ok" THEN Ok(Some(decoded.val))
             ELSE Err("Failed to deserialize")

\* create_recipe: "Generate ID if not provided"
assign_id(recipe, t) ==
  IF recipe.id = "" THEN [recipe EXCEPT !.id = generated_id(t)] ELSE recipe

\* Timestamps left as the client sent them.
set_timestamps_kept(recipe, now) == recipe

\* create_recipe: "Set timestamps"
set_timestamps(recipe, now) ==
  [recipe EXCEPT !.created_at = now, !.updated_at = now]

\* add_recipe_id and remove_recipe_id: the list read from "_recipe_ids";
\* an absent key is the empty list.
index_ids(data) == IF data.tag = "None" THEN Ok(<<>>) ELSE load_ids(data.val)

Read(st, key) == [st EXCEPT !.reads = @ \cup {key}, !.calls = @ + 1]
Write(st, key) == [st EXCEPT !.writes = @ \cup {key}, !.calls = @ + 1]

\* What the bucket holds for an id: its record, its Index entry.
Holds(b, id) ==
  LET ids == index_ids(bucket_get(b, IndexKey))
  IN (IF record_key(id) \in DOMAIN b THEN {"record"} ELSE {})
       \cup (IF ids.tag = "Ok" /\ contains(ids.val, id) THEN {"indexed"} ELSE {})

\* list_recipes: bucket.get("_recipe_ids") and the decoding of the list.
list_recipes_load(p) ==
  /\ proc[p].pc = "list_load"
  /\ LET data == bucket_get(bucket, IndexKey)
         me == Read(proc[p], IndexKey)
         ids == IF data.tag = "None" THEN Ok(<<>>) ELSE load_ids(data.val)
     IN proc' = [proc EXCEPT ![p] =
          IF ids.tag = "Err" THEN Reply(me, 500)
          ELSE IF ids.val = <<>> THEN Reply(me, 200)
          ELSE [me EXCEPT !.ids = ids.val, !.pc = "list_fetch"]]
  /\ UNCHANGED <<bucket, served, prev, raced, blind, stored, returned>>

\* A list_recipes whose loop passes the error of get_recipe on (get_recipe(&id)?).
list_recipes_fetch_strict(p) ==
  /\ proc[p].pc = "list_fetch"
  /\ LET id == Head(proc[p].ids)
         got == get_recipe(bucket, id)
         me == [Read(proc[p], record_key(id)) EXCEPT
                  !.ids = Tail(@),
                  !.acc = IF got.tag = "Ok" /\ got.val.tag = "Some"
                          THEN Append(@, got.val.val) ELSE @]
     IN proc' = [proc EXCEPT ![p] =
          IF got.tag = "Err" THEN Reply(me, 500)
          ELSE IF me.ids = <<>> THEN Reply(me, 200) ELSE me]
  /\ UNCHANGED <<bucket, served, prev, raced, blind, stored, returned>>

\* list_recipes: one turn of the loop, get_recipe(&id) for the next id; a
\* record that is missing or does not decode is skipped.
list_recipes_fetch(p) ==
  /\ proc[p].pc = "list_fetch"
  /\ LET id == Head(proc[p].ids)
         got == get_recipe(bucket, id)
         me == [Read(proc[p], record_key(id)) EXCEPT
                  !.ids = Tail(@),
                  !.acc = IF got.tag = "Ok" /\ got.val.tag = "Some"
                          THEN Append(@, got.val.val) ELSE @]
     IN proc' = [proc EXCEPT ![p] = IF me.ids = <<>> THEN Reply(me, 200) ELSE me]
  /\ UNCHANGED <<bucket, served, prev, raced, blind, stored, returned>>

\* handle_get, ["api", "recipes", id]: get_recipe(id) and the response.
get_recipe_read(p) ==
  /\ proc[p].pc = "get_read"
  /\ LET got == get_recipe(bucket, proc[p].id)
         me == Read(proc[p], record_key(proc[p].id))
     IN proc' = [proc EXCEPT ![p] =
          IF got.tag = "Err" THEN Reply(me, 500)
          ELSE IF got.val.tag = "None" THEN Reply(me, 404)
          ELSE Reply([me EXCEPT !.recipe = got.val.val], 200)]
  /\ UNCHANGED <<bucket, served, prev, raced, blind, stored, returned>>

\* A create_recipe that goes on to the index step without storing the record.
create_recipe_store_unwritten(p) ==
  /\ proc[p].pc = "create_store"
  /\ \E t \in Times, now \in Times :
       LET recipe == set_timestamps(assign_id(proc[p].recipe, t), now)
       IN proc' = [proc EXCEPT ![p] =
            [@ EXCEPT !.recipe = recipe, !.id = recipe.id, !.pc = "add_load"]]
  /\ UNCHANGED <<bucket, served, prev, raced, blind, stored, returned>>

\* create_recipe up to and including bucket.set(&key, &data).  The clock is
\* read once for a generated id and once for the timestamps.
create_recipe_store(p) ==
  /\ proc[p].pc = "create_store"
  /\ \E t \in Times, now \in Times :
       LET recipe == set_timestamps(assign_id(proc[p].recipe, t), now)
           key == record_key(recipe.id)
       IN /\ bucket' = bucket_set(bucket, key, to_vec_recipe(recipe))
          /\ proc' = [proc EXCEPT ![p] =
               [Write(@, key) EXCEPT !.recipe = recipe, !.id = recipe.id,
                                     !.pre = Holds(bucket, recipe.id),
                                     !.pc = "add_load"]]
          /\ stored' = stored \cup {<<recipe.id, recipe>>}
  /\ UNCHANGED <<served, prev, raced, blind, returned>>

\* add_recipe_id: bucket.get("_recipe_ids"), the membership test and the push.
add_recipe_id_load(p) ==
  /\ proc[p].pc = "add_load"
  /\ LET ids == index_ids(bucket_get(bucket, IndexKey))
         me == Read(proc[p], IndexKey)
         present == ids.tag = "Ok" /\ contains(ids.val, me.id)
     IN /\ proc' = [proc EXCEPT ![p] =
             IF ids.tag = "Err" THEN Reply(me, 500)
             ELSE IF present THEN Reply(me, 201)
             ELSE [me EXCEPT !.ids = push_id(ids.val, me.id), !.pc = "add_store"]]
        /\ returned' = IF present THEN returned \cup {<<me.id, me.recipe>>} ELSE returned
  /\ UNCHANGED <<bucket, served, prev, raced, blind, stored>>

\* An add_recipe_id whose write appends the id to what the Index holds at the
\* time of the write.
add_recipe_id_store_merged(p) ==
  /\ proc[p].pc = "add_store"
  /\ LET ids == index_ids(bucket_get(bucket, IndexKey))
         now == IF ids.tag = "Ok" THEN ids.val ELSE <<>>
     IN bucket' = bucket_set(bucket, IndexKey,
                    to_vec_ids(IF contains(now, proc[p].id) THEN now
                               ELSE push_id(now, proc[p].id)))
  /\ proc' = [proc EXCEPT ![p] = Reply(Write(@, IndexKey), 201)]
  /\ returned' = returned \cup {<<proc[p].id, proc[p].recipe>>}
  /\ UNCHANGED <<served, prev, raced, blind, stored>>

\* add_recipe_id: bucket.set("_recipe_ids", &ids_json); create answers 201.
add_recipe_id_store(p) ==
  /\ proc[p].pc = "add_store"
  /\ bucket' = bucket_set(bucket, IndexKey, to_vec_ids(proc[p].ids))
  /\ proc' = [proc EXCEPT ![p] = Reply(Write(@, IndexKey), 201)]
  /\ returned' = returned \cup {<<proc[p].id, proc[p].recipe>>}
  /\ UNCHANGED <<served, prev, raced, blind, stored>>

\* An update_recipe that checks that the record exists and answers 404 when it
\* does not.
update_recipe_store_checked(p) ==
  /\ proc[p].pc = "update_store"
  /\ LET key == record_key(proc[p].id)
     IN /\ bucket' = IF key \in DOMAIN bucket
                     THEN bucket_set(bucket, key, to_vec_recipe(proc[p].recipe))
                     ELSE bucket
        /\ proc' = [proc EXCEPT ![p] =
             IF key \in DOMAIN bucket
             THEN Reply([Write(@, key) EXCEPT !.pre = Holds(bucket, proc[p].id)], 200)
             ELSE Reply(Read(@, key), 404)]
        /\ blind' = blind
  /\ UNCHANGED <<served, prev, raced, stored, returned>>

\* update_recipe: bucket.set(&key, &data); update answers 200.
update_recipe_store(p) ==
  /\ proc[p].pc = "update_store"
  /\ LET key == record_key(proc[p].id)
     IN /\ bucket' = bucket_set(bucket, key, to_vec_recipe(proc[p].recipe))
        /\ proc' = [proc EXCEPT ![p] =
             Reply([Write(@, key) EXCEPT !.pre = Holds(bucket, proc[p].id)], 200)]
        /\ blind' = (blind \/ key \notin DOMAIN bucket)
  /\ UNCHANGED <<served, prev, raced, stored, returned>>

\* A delete_recipe whose bucket.delete removes nothing.
delete_recipe_remove_kept(p) ==
  /\ proc[p].pc = "delete_remove"
  /\ LET key == record_key(proc[p].id)
     IN /\ bucket' = bucket
        /\ proc' = [proc EXCEPT ![p] =
             [Write(@, key) EXCEPT !.pre = Holds(bucket, proc[p].id),
                                   !.mid = {Holds(bucket', proc[p].id)},
                                   !.pc = "remove_load"]]
  /\ UNCHANGED <<served, prev, raced, blind, stored, returned>>

\* delete_recipe: bucket.delete(&key).
delete_recipe_remove(p) ==
  /\ proc[p].pc = "delete_remove"
  /\ LET key == record_key(proc[p].id)
     IN /\ bucket' = bucket_delete(bucket, key)
        /\ proc' = [proc EXCEPT ![p] =
             [Write(@, key) EXCEPT !.pre = Holds(bucket, proc[p].id),
                                   !.mid = {Holds(bucket', proc[p].id)},
                                   !.pc = "remove_load"]]
  /\ UNCHANGED <<served, prev, raced, blind, stored, returned>>

\* A remove_recipe_id that persists the filtered list even when the key is
\* absent.
remove_recipe_id_load_always(p) ==
  /\ proc[p].pc = "remove_load"
  /\ LET data == bucket_get(bucket, IndexKey)
         me == Read(proc[p], IndexKey)
         ids == index_ids(data)
     IN proc' = [proc EXCEPT ![p] =
          IF ids.tag = "Err" THEN Reply(me, 500)
          ELSE [me EXCEPT !.ids = retain(ids.val, me.id), !.pc = "remove_store"]]
  /\ UNCHANGED <<bucket, served, prev, raced, blind, stored, returned>>

\* remove_recipe_id: bucket.get("_recipe_ids") and the retain; an absent key
\* ends the delete without a write.
remove_recipe_id_load(p) ==
  /\ proc[p].pc = "remove_load"
  /\ LET data == bucket_get(bucket, IndexKey)
         me == Read(proc[p], IndexKey)
         ids == index_ids(data)
     IN proc' = [proc EXCEPT ![p] =
          IF data.tag = "None" THEN Reply(me, 200)
          ELSE IF ids.tag = "Err" THEN Reply(me, 500)
          ELSE [me EXCEPT !.ids = retain(ids.val, me.id),
                          !.mid = @ \cup {Holds(bucket, me.id)},
                          !.pc = "remove_store"]]
  /\ UNCHANGED <<bucket, served, prev, raced, blind, stored, returned>>

\* remove_recipe_id: bucket.set("_recipe_ids", &ids_json); delete answers 200.
remove_recipe_id_store(p) ==
  /\ proc[p].pc = "remove_store"
  /\ bucket' = bucket_set(bucket, IndexKey, to_vec_ids(proc[p].ids))
  /\ proc' = [proc EXCEPT ![p] = Reply(Write(@, IndexKey), 200)]
  /\ UNCHANGED <<served, prev, raced, blind, stored, returned>>

\* The key of the bucket call request p makes next.
next_key(st) ==
  CASE st.pc = "list_fetch" -> record_key(Head(st.ids))
    [] st.pc = "create_store" -> record_key(st.recipe.id)
    [] st.pc \in {"get_read", "update_store", "delete_remove"} -> record_key(st.id)
    [] OTHER -> IndexKey

Fail(st, key) == [st EXCEPT !.failed = @ \cup {key}, !.calls = @ + 1]

\* A failed bucket call that is made again: the request stays where it is.
store_fails_retry(p) ==
  /\ InFlight(p)
  /\ proc' = [proc EXCEPT ![p] = Fail(proc[p], next_key(proc[p]))]
  /\ UNCHANGED <<bucket, served, prev, raced, blind, stored, returned>>

\* The next bucket call of request p (or the open("recipes") before it)
\* returns an error and leaves the bucket as it is.  Inside the loop of
\* list_recipes the failed get_recipe is skipped; everywhere else the error
\* reaches the handler, which answers 500.
store_fails(p) ==
  /\ InFlight(p)
  /\ LET me == Fail(proc[p], next_key(proc[p]))
         skipped == [me EXCEPT !.ids = Tail(@)]
     IN proc' = [proc EXCEPT ![p] =
          IF proc[p].pc = "list_fetch"
          THEN (IF skipped.ids = <<>> THEN Reply(skipped, 200) ELSE skipped)
          ELSE Reply(me, 500)]
  /\ UNCHANGED <<bucket, served, prev, raced, blind, stored, returned>>

\* Guest::handle returns: the slot is free again.
respond(p) ==
  /\ proc[p].pc = "done"
  /\ prev' = IF proc[p].solo /\ proc[p].status \in {200, 201}
                /\ proc[p].op \in {"create", "delete"}
              THEN [op |-> proc[p].op, id |-> proc[p].id,
                    before |-> IF proc[p].op = "create" /\ prev.op = "create"
                               THEN prev.id ELSE "",
                    pre |-> {}]
              ELSE IF proc[p].solo /\ proc[p].status = 200 /\ proc[p].op = "update"
              THEN [op |-> "update", id |-> proc[p].id, before |-> "",
                    pre |-> proc[p].pre]
              ELSE IF proc[p].solo /\ proc[p].status = 500 /\ proc[p].op = "create"
                      /\ proc[p].writes # {}
              THEN [op |-> "create_failed", id |-> proc[p].id, before |-> "",
                    pre |-> proc[p].pre]
              ELSE NoPrev
  /\ proc' = [proc EXCEPT ![p] = Idle]
  /\ UNCHANGED <<bucket, served, raced, blind, stored, returned>>

(* ---------------------------- specifications ---------------------------- *)

Init ==
  /\ bucket = EmptyBucket
  /\ proc = [p \in Procs |-> Idle]
  /\ served = 0
  /\ prev = NoPrev
  /\ raced = FALSE
  /\ blind = FALSE
  /\ stored = {}
  /\ returned = {}

Next ==
  \E p \in Procs :
    \/ handle(p, Methods)
    \/ list_recipes_load(p)
    \/ list_recipes_fetch(p)
    \/ get_recipe_read(p)
    \/ create_recipe_store(p)
    \/ add_recipe_id_load(p)
    \/ add_recipe_id_store(p)
    \/ update_recipe_store(p)
    \/ delete_recipe_remove(p)
    \/ remove_recipe_id_load(p)
    \/ remove_recipe_id_store(p)
    \/ respond(p)

\* Any interleaving of requests of every kind; every store call succeeds.
Spec == Init /\ [][Next]_vars

NextCreates ==
  \E p \in Procs :
    \/ handle(p, {"GET", "POST"})
    \/ list_recipes_load(p)
    \/ list_recipes_fetch(p)
    \/ get_recipe_read(p)
    \/ create_recipe_store(p)
    \/ add_recipe_id_load(p)
    \/ add_recipe_id_store(p)
    \/ respond(p)

\* Only GET and POST requests arrive: creates, gets and lists interleave and
\* no update or delete ever runs.
SpecCreates == Init /\ [][NextCreates]_vars

NextFaults == Next \/ \E p \in Procs : store_fails(p)

\* Any interleaving of requests of every kind; any bucket call may fail.
SpecFaults == Init /\ [][NextFaults]_vars

\* A record as a create stores it.
Created(id) == to_vec_recipe(set_timestamps(Payload(id, 1), 1))

\* Buckets the component can find when a request arrives: the empty bucket; an
\* Index entry whose record is gone (left by a create racing a delete); and
\* buckets in which another writer of the store has left bytes the component
\* cannot decode, under _recipe_ids (text that is not JSON, JSON that is not
\* an array, bytes that are not UTF-8) or under a record key.
ForeignBuckets ==
  { EmptyBucket,
    IndexKey :> JsonArray(<<"a">>),
    (IndexKey :> NotJson) @@ (record_key("a") :> Created("a")),
    (IndexKey :> JsonObject(Payload("a", 1))) @@ (record_key("a") :> Created("a")),
    (IndexKey :> NotUtf8) @@ (record_key("a") :> Created("a")),
    (IndexKey :> JsonArray(<<"a", "recipe_1">>)) @@ (record_key("a") :> NotJson)
       @@ (record_key("recipe_1") :> Created("recipe_1")) }

InitForeign ==
  /\ bucket \in ForeignBuckets
  /\ proc = [p \in Procs |-> Idle]
  /\ served = 0
  /\ prev = NoPrev
  /\ raced = FALSE
  /\ blind = FALSE
  /\ stored = {}
  /\ returned = {}

\* A request arrives while no other request is in the component.
handle_alone(p) == (\A q \in Procs : proc[q].pc = "idle") /\ handle(p, Methods)

NextForeign ==
  \E p \in Procs :
    \/ handle_alone(p)
    \/ list_recipes_load(p)
    \/ list_recipes_fetch(p)
    \/ get_recipe_read(p)
    \/ create_recipe_store(p)
    \/ add_recipe_id_load(p)
    \/ add_recipe_id_store(p)
    \/ update_recipe_store(p)
    \/ delete_recipe_remove(p)
    \/ remove_recipe_id_load(p)
    \/ remove_recipe_id_store(p)
    \/ store_fails(p)
    \/ respond(p)

\* Requests of every kind arrive one at a time on a bucket that may hold
\* foreign data; any bucket call may fail.
SpecForeign == InitForeign /\ [][NextForeign]_vars

(* ---------------------------- observations ------------------------------ *)

\* The ID sequence the Index holds (empty when the key is absent).
IndexIds ==
  LET ids == index_ids(bucket_get(bucket, IndexKey))
  IN IF ids.tag = "Ok" THEN ids.val ELSE <<>>

HasRecord(id) == record_key(id) \in DOMAIN bucket
RecordKeys == (DOMAIN bucket) \ {IndexKey}

\* No request is in flight.
Quiescent == \A p \in Procs : proc[p].pc = "idle"

\* No create, update or delete is in flight.
WritersDone ==
  \A p \in Procs : proc[p].op \in {"create", "update", "delete"} => ~InFlight(p)

IndexedIdsHaveRecords == \A i \in 1..Len(IndexIds) : HasRecord(IndexIds[i])
RecordsAreIndexed ==
  \A key \in RecordKeys : \E id \in AllIds : key = record_key(id) /\ contains(IndexIds, id)

(* ---------------------------- C1 ---------------------------------------- *)

\* C1 as stated: in every quiescent state reached from the empty bucket by
\* any interleaving of requests, every id in the Index has a record under
\* recipe:<id>.
C1_AnyInterleaving == Quiescent => IndexedIdsHaveRecords

\* C1 amended: in every quiescent state reached from the empty bucket by an
\* interleaving in which no create or delete ran while another create or
\* delete was running (updates, gets and lists interleave freely), every id
\* in the Index has a record under recipe:<id>.
C1_IndexToRecord == (Quiescent /\ ~raced) => IndexedIdsHaveRecords

\* Two creates and a delete have run, none overlapping another, and the Index
\* still names a recipe.
C1_Witness ==
  /\ Quiescent /\ ~raced /\ served = 3
  /\ prev.op = "delete"
  /\ IndexIds # <<>>

(* ---------------------------- C2 ---------------------------------------- *)

\* C2 as stated: once every in-flight create, update and delete has
\* completed, every record key present has its id in the Index.
C2_AnyExecution == WritersDone => RecordsAreIndexed

\* C2 amended: the same, for executions in which no create or delete ran
\* while another create or delete was running and no update wrote an id whose
\* record was absent at the time of the write.
C2_RecordToIndex == (WritersDone /\ ~raced /\ ~blind) => RecordsAreIndexed

\* A record that an update has rewritten sits next to a second record, with
\* no writer left in flight.
C2_Witness ==
  /\ Quiescent /\ ~raced /\ ~blind
  /\ Cardinality(RecordKeys) = 2
  /\ \E key \in RecordKeys : bucket[key].doc.updated_at = 9

(* ---------------------------- C3 ---------------------------------------- *)

Answered(p, op) == proc[p].pc = "done" /\ proc[p].op = op

\* C3 as stated: with only creates, gets and lists running, a get(k) issued
\* after a create returned success with id k yields the recipe that create
\* wrote.
C3_OwnRecipe ==
  \A p \in Procs : Answered(p, "get") =>
    \A e \in proc[p].seen : proc[p].status = 200 /\ proc[p].recipe = e[2]

\* C3 amended: with only creates, gets and lists running, a get(k) issued
\* after a create returned success with id k is answered 200 (never 404) with
\* a recipe of id k that a create for k wrote; it is the recipe of that very
\* create unless another create for the same id k has written too.
C3_CreatedIsRetrievable ==
  \A p \in Procs : (Answered(p, "get") /\ proc[p].seen # {}) =>
    /\ proc[p].status = 200
    /\ proc[p].recipe.id = proc[p].id
    /\ <<proc[p].id, proc[p].recipe>> \in stored
    /\ Cardinality({ e \in stored : e[1] = proc[p].id }) = 1
         => \A e \in proc[p].seen : proc[p].recipe = e[2]

\* A get is answered for an id whose create returned before the get arrived
\* and whose Index entry was lost to a concurrent create.
C3_Witness ==
  \E p \in Procs :
    /\ Answered(p, "get") /\ proc[p].seen # {} /\ proc[p].status = 200
    /\ WritersDone
    /\ ~contains(IndexIds, proc[p].id)

(* ---------------------------- C4 ---------------------------------------- *)

\* The request that returned last is a successful `op` for `id` that ran
\* alone, and request p has run alone since.
Follows(p, op, id) == proc[p].solo /\ prev.op = op /\ prev.id = id

\* C4: a get(k) that directly follows a create that returned k, nothing else
\* running, is answered 200 with a recipe whose id is k and whose created_at
\* and updated_at are equal, non-zero clock values.
C4_CreateThenGet ==
  \A p \in Procs : (Answered(p, "get") /\ Follows(p, "create", proc[p].id)) =>
    /\ proc[p].status = 200
    /\ proc[p].recipe.id = proc[p].id
    /\ proc[p].recipe.created_at = proc[p].recipe.updated_at
    /\ proc[p].recipe.created_at # 0
    /\ proc[p].recipe.created_at \in Times

\* The get follows the create of the payload that carried created_at 7 and
\* updated_at 9, on a bucket that already held something.
C4_Witness ==
  \E p \in Procs :
    /\ Answered(p, "get") /\ Follows(p, "create", proc[p].id)
    /\ proc[p].recipe.name = "y"
    /\ served = 3

(* ---------------------------- C5 ---------------------------------------- *)

\* Number of recipes with the given id in a list response.
Count(recipes, id) == Cardinality({ i \in 1..Len(recipes) : recipes[i].id = id })

\* C5: a list() that directly follows create(R1) then create(R2), all run
\* one after the other and successful, holds the id of R1 exactly once and
\* the id of R2 exactly once.
C5_ListSuperset ==
  \A p \in Procs :
    (Answered(p, "list") /\ proc[p].solo /\ prev.op = "create" /\ prev.before # "") =>
      /\ proc[p].status = 200
      /\ Count(proc[p].acc, prev.id) = 1
      /\ Count(proc[p].acc, prev.before) = 1

\* The list follows two creates of different ids.
C5_Witness ==
  \E p \in Procs :
    /\ Answered(p, "list") /\ proc[p].solo
    /\ prev.op = "create" /\ prev.before # "" /\ prev.before # prev.id
    /\ Len(proc[p].acc) = 2

(* ---------------------------- C6 ---------------------------------------- *)

\* C6: when a delete(k) that ran alone has answered 200, the record
\* recipe:k is gone and the Index does not contain k; the get(k) that
\* directly follows is answered 404 and the list() that directly follows
\* holds no recipe with id k.
C6_DeleteRemoves ==
  \A p \in Procs :
    /\ (Answered(p, "delete") /\ proc[p].solo /\ proc[p].status = 200) =>
         (~HasRecord(proc[p].id) /\ ~contains(IndexIds, proc[p].id))
    /\ (Answered(p, "get") /\ Follows(p, "delete", proc[p].id)) =>
         proc[p].status = 404
    /\ (Answered(p, "list") /\ proc[p].solo /\ prev.op = "delete") =>
         (proc[p].status = 200 /\ Count(proc[p].acc, prev.id) = 0)

\* The get follows the delete of a recipe that a create had stored.
C6_Witness ==
  \E p \in Procs :
    /\ Answered(p, "get") /\ Follows(p, "delete", proc[p].id)
    /\ \E e \in returned : e[1] = proc[p].id

(* ---------------------------- C7 ---------------------------------------- *)

\* The records of the bucket, without the Index.
Records == [key \in RecordKeys |-> bucket[key]]

\* Request p, running alone, takes a step of the given operation.
StepsAlone(p, op) ==
  proc[p].op = op /\ proc[p].solo /\ InFlight(p) /\ proc'[p].pc # proc[p].pc

\* C7: every step of a delete(k) that runs alone while k has no record and
\* is not in the Index leaves every record and the Index's ID sequence as
\* they were, and the delete is answered 200; a delete(k) that directly
\* follows a delete(k) leaves the whole bucket as it was.
C7_IdempotentDelete ==
  [][\A p \in Procs :
       /\ (/\ StepsAlone(p, "delete")
           /\ ~HasRecord(proc[p].id)
           /\ ~contains(IndexIds, proc[p].id)) =>
            /\ Records' = Records
            /\ IndexIds' = IndexIds
            /\ proc'[p].pc = "done" => proc'[p].status = 200
       /\ (StepsAlone(p, "delete") /\ Follows(p, "delete", proc[p].id)) =>
            bucket' = bucket
    ]_vars

\* The second of two deletes of the same id in a row has answered 200, with
\* another recipe still stored and indexed.
C7_Witness ==
  \E p \in Procs :
    /\ Answered(p, "delete") /\ Follows(p, "delete", proc[p].id)
    /\ proc[p].status = 200
    /\ IndexIds # <<>> /\ RecordKeys # {}

(* ---------------------------- C8 ---------------------------------------- *)

\* Request p arrives in this step.
Arrives(p) == proc[p].pc = "idle" /\ proc'[p].pc # "idle"

\* C8: a POST /api/recipes or PUT /api/recipes/{id} whose body does not
\* decode as a Recipe is answered 400 by the step that receives it, without
\* a set or delete, the bucket being exactly as before.
C8_MalformedBody ==
  [][\A p \in Procs :
       (/\ Arrives(p)
        /\ \/ proc'[p].method = "POST" /\ IsListPath(proc'[p].segs)
           \/ proc'[p].method = "PUT" /\ IsItemPath(proc'[p].segs)
        /\ proc'[p].body \in BadBodies) =>
         /\ proc'[p].pc = "done"
         /\ proc'[p].status = 400
         /\ proc'[p].writes = {}
         /\ bucket' = bucket
    ]_vars

\* A PUT whose servings does not fit u8 has been answered 400 on a bucket
\* that holds a record and the Index.
C8_Witness ==
  \E p \in Procs :
    /\ proc[p].pc = "done" /\ proc[p].method = "PUT" /\ proc[p].status = 400
    /\ proc[p].body = JsonObject([Payload("a", 1) EXCEPT !.servings = 300])
    /\ HasRecord("a") /\ IndexIds = <<"a">>

(* ---------------------------- C9 ---------------------------------------- *)

\* C9: an update(k, payload) writes no key but recipe:k, whatever id the
\* payload carries, and in every reachable state the record under
\* recipe:<k> decodes to a recipe whose id is k.
C9_UpdatePreservesId ==
  /\ \A p \in Procs : proc[p].op = "update" =>
       /\ proc[p].id = proc[p].segs[3]
       /\ proc[p].writes \subseteq {record_key(proc[p].id)}
       /\ (proc[p].pc = "done" /\ proc[p].status = 200) =>
            proc[p].writes = {record_key(proc[p].id)}
  /\ \A key \in RecordKeys : \E id \in AllIds :
       /\ key = record_key(id)
       /\ bucket[key].fmt = "json" /\ bucket[key].shape = "object"
       /\ bucket[key].doc.id = id

\* An update whose payload names another id than the path has been answered
\* 200 and the record carries the id of the path.
C9_Witness ==
  \E p \in Procs :
    /\ Answered(p, "update") /\ proc[p].status = 200
    /\ proc[p].body.doc.id \notin {"", proc[p].id}
    /\ bucket[record_key(proc[p].id)].doc.id = proc[p].id
    /\ bucket[record_key(proc[p].id)].doc.name = proc[p].body.doc.name

(* ---------------------------- C10 --------------------------------------- *)

HandledMethods == {"GET", "POST", "PUT", "DELETE"}

\* The routing table: the rows of each method.
InRoutingTable(method, segs) ==
  \/ method = "GET" /\ (IsListPath(segs) \/ IsItemPath(segs) \/ segs = <<"health">>)
  \/ method = "POST" /\ IsListPath(segs)
  \/ method = "PUT" /\ IsItemPath(segs)
  \/ method = "DELETE" /\ IsItemPath(segs)

\* C10: a request whose method is not GET, POST, PUT or DELETE is answered
\* 405 on any path; a request with one of these methods whose path segments
\* match no row of the table for its method is answered 404; neither calls
\* get, set or delete on any bucket key.
C10_Routing ==
  \A p \in Procs : proc[p].pc # "idle" =>
    /\ proc[p].method \notin HandledMethods =>
         /\ proc[p].pc = "done" /\ proc[p].status = 405
         /\ proc[p].reads = {} /\ proc[p].writes = {}
    /\ (proc[p].method \in HandledMethods
        /\ ~InRoutingTable(proc[p].method, proc[p].segs)) =>
         /\ proc[p].pc = "done" /\ proc[p].status = 404
         /\ proc[p].reads = {} /\ proc[p].writes = {}

\* GET /nope has been answered 404 and PATCH /api/recipes/a 405.
C10_Witness ==
  \E p, q \in Procs :
    /\ proc[p].pc = "done" /\ proc[p].method = "GET" /\ proc[p].segs = <<"nope">>
    /\ proc[p].status = 404
    /\ proc[q].pc = "done" /\ proc[q].method = "PATCH"
    /\ proc[q].segs = <<"api", "recipes", "a">> /\ proc[q].status = 405
    /\ RecordKeys # {}

(* ---------------------------- C11 --------------------------------------- *)

\* Request p performs the record write of a create in this step.
CreateWrites(p) == proc[p].pc = "create_store" /\ proc'[p].pc = "add_load"

\* Request p performs the record write of an update in this step.
UpdateWrites(p) ==
  proc[p].pc = "update_store" /\ proc'[p].pc = "done" /\ proc'[p].status = 200

\* The record under `key` is new or has new bytes after this step.
Rewritten(key) == key \notin RecordKeys \/ bucket'[key] # bucket[key]

\* C11 as stated: in every reachable state, after any sequence of create and
\* update requests, the created_at and updated_at of every stored record are
\* values read from the clock, never the values of a request body.
C11_NeverFromClient ==
  \A key \in RecordKeys :
    bucket[key].doc.created_at \in Times /\ bucket[key].doc.updated_at \in Times

\* C11 amended: every record a create writes carries created_at and
\* updated_at equal to one reading of the clock, whatever the request body
\* says; every record an update writes carries the created_at and updated_at
\* of its request body verbatim; no other step changes a stored record.
C11_ServerTimestampsOnCreate ==
  [][\A key \in RecordKeys' : Rewritten(key) =>
       \E p \in Procs :
         /\ key = record_key(proc'[p].id)
         /\ \/ /\ CreateWrites(p)
               /\ bucket'[key].doc.created_at \in Times
               /\ bucket'[key].doc.updated_at = bucket'[key].doc.created_at
            \/ /\ UpdateWrites(p)
               /\ bucket'[key].doc.created_at = proc[p].body.doc.created_at
               /\ bucket'[key].doc.updated_at = proc[p].body.doc.updated_at
    ]_vars

\* A create whose body carried created_at 7 and updated_at 9 has stored clock
\* values, next to a record that an update wrote with 7 and 9.
C11_Witness ==
  \E k1, k2 \in RecordKeys :
    /\ bucket[k1].doc.name = "y" /\ bucket[k1].doc.created_at \in Times
    /\ bucket[k2].doc.created_at = 7 /\ bucket[k2].doc.updated_at = 9

(* ---------------------------- C12 --------------------------------------- *)

HasIndex == IndexKey \in DOMAIN bucket

\* C12: from the empty bucket, the key _recipe_ids appears only in the step
\* in which a create performs its index write; get, list and update never
\* write it; a delete that finds the key absent ends without writing it; and
\* no step removes the key once it is present.
C12_IndexLifecycle ==
  [][/\ (~HasIndex /\ HasIndex') =>
          \E p \in Procs : /\ proc[p].op = "create" /\ proc[p].pc = "add_store"
                           /\ proc'[p].pc = "done"
     /\ HasIndex => HasIndex'
     /\ \A p \in Procs :
          /\ proc'[p].op \in {"get", "list", "update", "health", "none"} =>
               IndexKey \notin proc'[p].writes
          /\ (proc[p].pc = "remove_load" /\ proc'[p].pc # "remove_load" /\ ~HasIndex) =>
               /\ proc'[p].pc = "done"
               /\ IndexKey \notin proc'[p].writes
               /\ ~HasIndex'
    ]_vars

\* A delete against an absent Index has ended without writing the key, and a
\* create has made the key appear afterwards.
C12_Witness ==
  \E p, q \in Procs :
    /\ Answered(p, "delete") /\ proc[p].status = 200
    /\ IndexKey \in proc[p].reads /\ IndexKey \notin proc[p].writes
    /\ Answered(q, "create") /\ proc[q].status = 201
    /\ IndexKey \in proc[q].writes /\ HasIndex

(* ---------------------------- C13 --------------------------------------- *)

\* The keys request p has tried to read or write.
Touched(p) == proc[p].reads \cup proc[p].writes \cup proc[p].failed

\* The create has been answered 500 after its record write succeeded: its
\* index step failed.
IndexStepFailed(p) ==
  Answered(p, "create") /\ proc[p].status = 500 /\ proc[p].writes # {}

\* Within one create the record write comes before any call on the Index; a
\* create whose record write fails is answered 500 after that one call,
\* having written no key and made no call on the Index.
CreateOrder ==
  /\ \A p \in Procs :
       (proc[p].op = "create" /\ IndexKey \in Touched(p)) =>
          record_key(proc[p].id) \in proc[p].writes
  /\ \A p \in Procs :
       (Answered(p, "create") /\ proc[p].status = 500 /\ proc[p].writes = {}) =>
          (proc[p].calls = 1 /\ IndexKey \notin Touched(p))

\* A create whose index step failed is answered 500 with its record stored,
\* and the get(id) that directly follows it returns that record.
OrphanStored ==
  \A p \in Procs :
    /\ (IndexStepFailed(p) /\ proc[p].solo) =>
         /\ proc[p].writes = {record_key(proc[p].id)}
         /\ bucket[record_key(proc[p].id)] = to_vec_recipe(proc[p].recipe)
    /\ (Answered(p, "get") /\ Follows(p, "create_failed", proc[p].id)
        /\ proc[p].failed = {}) =>
         /\ proc[p].status = 200
         /\ <<proc[p].id, proc[p].recipe>> \in stored

\* The list() that directly follows a create whose index step failed.
ListAfterOrphan(p) ==
  Answered(p, "list") /\ proc[p].solo /\ prev.op = "create_failed"
    /\ proc[p].failed = {}

\* C13 as stated: the record write comes first; a failed record write leaves
\* the Index untouched and stores nothing; after a failed index step create
\* answers 500, the record is stored, get(id) returns it and list() does not
\* hold it.
C13_OrphanInvisible ==
  /\ CreateOrder
  /\ OrphanStored
  /\ \A p \in Procs : ListAfterOrphan(p) =>
       (proc[p].status = 200 /\ Count(proc[p].acc, prev.id) = 0)

\* C13 amended: as stated, except that list() does not hold the record only
\* when its id was not in the Index before the create; a create of an id the
\* Index already holds leaves the id listed.
C13_PartialFailure ==
  /\ CreateOrder
  /\ OrphanStored
  /\ \A p \in Procs : ListAfterOrphan(p) =>
       /\ proc[p].status = 200
       /\ (Count(proc[p].acc, prev.id) = 0) <=> ("indexed" \notin prev.pre)

\* A list has been answered after the create of a new id whose index step
\* failed: it holds the recipe created before and not the orphan, whose
\* record is stored.
C13_Witness ==
  \E p \in Procs :
    /\ ListAfterOrphan(p) /\ "indexed" \notin prev.pre
    /\ Len(proc[p].acc) = 1
    /\ HasRecord(prev.id)

(* ---------------------------- C14 --------------------------------------- *)

\* The update has made its bucket call and the call succeeded.
Updated(p) == Answered(p, "update") /\ proc[p].calls = 1 /\ proc[p].failed = {}

\* update never reads or writes _recipe_ids and reads no key at all (no
\* existence check); an update whose bucket call succeeds is answered 200,
\* never 404, and has set recipe:<id> to its payload with the id forced to
\* the path id, whether or not the key held a record; the step that does so
\* leaves the value under _recipe_ids as it was.
UpdateFrame ==
  \A p \in Procs :
    /\ proc'[p].op = "update" =>
         /\ proc'[p].reads = {}
         /\ Touched(p)' \subseteq {record_key(proc'[p].id)}
         /\ proc'[p].calls <= 1
         /\ proc'[p].status # 404
    /\ Updated(p)' =>
         /\ proc'[p].status = 200
         /\ proc'[p].writes = {record_key(proc'[p].id)}
    /\ (proc[p].pc = "update_store" /\ Updated(p)') =>
         /\ bucket'[record_key(proc[p].id)] = to_vec_recipe(proc[p].recipe)
         /\ bucket_get(bucket', IndexKey) = bucket_get(bucket, IndexKey)
         /\ \A key \in DOMAIN bucket : key # record_key(proc[p].id) => bucket'[key] = bucket[key]

\* Request p directly follows an update that ran alone on an id that had no
\* record, and no bucket call of p has failed.
AfterUpdateOfMissing(p, op) ==
  /\ Answered(p, op) /\ proc[p].solo /\ proc[p].failed = {}
  /\ prev.op = "update" /\ "record" \notin prev.pre
  /\ op = "get" => proc[p].id = prev.id

UpdatedIsGot ==
  \A p \in Procs : AfterUpdateOfMissing(p, "get")' =>
    (proc'[p].status = 200 /\ proc'[p].recipe.id = prev'.id)

\* C14 as stated: update never reads or writes _recipe_ids and checks
\* nothing; applied to an id k with no record it stores recipe:k, leaves the
\* Index unchanged and answers 200, never 404; k is then returned by get and
\* not by list.
C14_NeverListed ==
  [][/\ UpdateFrame
     /\ UpdatedIsGot
     /\ \A p \in Procs : AfterUpdateOfMissing(p, "list")' =>
          Count(proc'[p].acc, prev'.id) = 0
    ]_vars

\* C14 amended: as stated, except that k is not returned by list only when
\* the Index did not hold k before the update; an Index entry for k whose
\* record was gone makes list return k once the update has stored the record.
C14_UpdateFrame ==
  [][/\ UpdateFrame
     /\ UpdatedIsGot
     /\ \A p \in Procs : AfterUpdateOfMissing(p, "list")' =>
          ((Count(proc'[p].acc, prev'.id) = 0) <=> ("indexed" \notin prev'.pre))
    ]_vars

\* A list has been answered after an update of an id that had neither record
\* nor Index entry: it holds another recipe, and the updated id has a record.
C14_Witness ==
  \E p \in Procs :
    /\ AfterUpdateOfMissing(p, "list") /\ prev.pre = {}
    /\ proc[p].status = 200 /\ Len(proc[p].acc) = 1
    /\ HasRecord(prev.id)

(* ---------------------------- C15 --------------------------------------- *)

\* The only two requests so far are creates p and q of distinct ids; both
\* have been answered 201, and each read the Index before the other wrote it
\* (the list each one wrote does not hold the other's id).
BothReadFirst(p, q) ==
  /\ p # q /\ served = 2
  /\ Answered(p, "create") /\ proc[p].status = 201
  /\ Answered(q, "create") /\ proc[q].status = 201
  /\ proc[p].id # proc[q].id
  /\ ~contains(proc[p].ids, proc[q].id)
  /\ ~contains(proc[q].ids, proc[p].id)

\* C15: when two concurrent creates of distinct ids a and b, all bucket
\* calls succeeding, have both read _recipe_ids before either wrote it and
\* both have returned success, the records recipe:a and recipe:b both exist
\* and the Index holds exactly one of a and b; that interleaving is
\* reachable (C15_Witness).
C15_LostIndexUpdate ==
  \A p, q \in Procs : BothReadFirst(p, q) =>
    /\ HasRecord(proc[p].id) /\ HasRecord(proc[q].id)
    /\ IndexIds \in {<<proc[p].id>>, <<proc[q].id>>}

\* Both creates have returned success, both records exist and the Index
\* holds only the id of the create that wrote last.
C15_Witness ==
  \E p, q \in Procs :
    /\ BothReadFirst(p, q)
    /\ HasRecord(proc[p].id) /\ HasRecord(proc[q].id)
    /\ contains(IndexIds, proc[q].id) /\ ~contains(IndexIds, proc[p].id)

(* ---------------------------- C16 --------------------------------------- *)

\* The two intermediate shapes: (a) the record is gone and the id is still
\* in the Index; (b) the Index has dropped the id and the record is still
\* there.
RecordGoneIdIndexed == {"indexed"}
IdDroppedRecordPresent == {"record"}

\* Request p is a delete of a recipe that had its record and its Index entry
\* when the delete made its first bucket call, and no create, update or
\* other delete has been in flight with it.
LoneDelete(p) ==
  proc[p].op = "delete" /\ proc[p].lone /\ proc[p].pre = {"record", "indexed"}

\* The delete has made its first bucket call and not yet its last.
MidDelete(p) == proc[p].pc \in {"remove_load", "remove_store"}

\* C16 as stated: a delete(k) of an existing, indexed recipe that runs with
\* no other writer passes through both shapes, (a) and (b), which a
\* concurrent list or get can then observe.
C16_BothShapes ==
  \A p \in Procs : (LoneDelete(p) /\ Answered(p, "delete") /\ proc[p].status = 200) =>
    {RecordGoneIdIndexed, IdDroppedRecordPresent} \subseteq proc[p].mid

\* C16 amended: such a delete passes through shape (a) only: from its first
\* bucket call to its last the record is gone and k is still in the Index,
\* and at no moment is k out of the Index while the record exists.
C16_RecordGoneFirst ==
  \A p \in Procs : LoneDelete(p) =>
    /\ proc[p].mid = {RecordGoneIdIndexed}
    /\ MidDelete(p) => Holds(bucket, proc[p].id) = RecordGoneIdIndexed
    /\ Holds(bucket, proc[p].id) # IdDroppedRecordPresent

\* A get(k) that arrived while the delete(k) was in flight has been answered
\* 404 while k is still in the Index.
C16_Witness ==
  \E p, q \in Procs :
    /\ LoneDelete(p) /\ MidDelete(p)
    /\ Answered(q, "get") /\ proc[q].id = proc[p].id /\ proc[q].status = 404
    /\ contains(IndexIds, proc[p].id)

(* ---------------------------- C17 --------------------------------------- *)

\* The value under _recipe_ids is absent, or is not valid UTF-8, or is not a
\* JSON array of strings.
IndexAbsentOrUndecodable ==
  \/ ~HasIndex
  \/ bucket[IndexKey].fmt # "json"
  \/ bucket[IndexKey].shape # "array"

\* Request p makes, in this step, the bucket call it was about to make at
\* `pc`, and the call succeeds.
Calls(p, pc) ==
  proc[p].pc = pc /\ proc'[p].calls = proc[p].calls + 1
    /\ proc'[p].failed = proc[p].failed

\* C17: whenever the value under _recipe_ids is absent or undecodable, the
\* load of list yields the empty sequence and list answers 200 with an empty
\* array; the load of add_recipe_id yields the empty sequence, so the create
\* goes on to write the Index holding its id alone; the load of
\* remove_recipe_id yields the empty sequence and the delete does not fail.
C17_FailOpen ==
  [][IndexAbsentOrUndecodable =>
       \A p \in Procs :
         /\ Calls(p, "list_load") =>
              /\ proc'[p].pc = "done" /\ proc'[p].status = 200
              /\ proc'[p].acc = <<>>
         /\ Calls(p, "add_load") =>
              /\ proc'[p].pc = "add_store"
              /\ proc'[p].ids = <<proc[p].id>>
         /\ Calls(p, "remove_load") =>
              /\ proc'[p].status # 500
              /\ proc'[p].pc = "remove_store" => proc'[p].ids = <<>>
    ]_vars

(* ---------------------------- C18 --------------------------------------- *)

\* The recipes of those ids, in order, whose record exists in bucket b and
\* decodes and whose fetch did not fail.
RECURSIVE Listed(_, _, _)
Listed(b, ids, failed) ==
  IF ids = <<>> THEN <<>>
  ELSE LET key == record_key(Head(ids))
           rest == Listed(b, Tail(ids), failed)
       IN IF key \in DOMAIN b /\ key \notin failed
             /\ from_slice_recipe(b[key]).tag = "Ok"
          THEN <<from_slice_recipe(b[key]).val>> \o rest
          ELSE rest

\* The load of the Index by list succeeds: the key is absent or holds text.
IndexLoads == ~HasIndex \/ bucket[IndexKey].fmt # "binary"

\* C18: a list() that runs with no other request in flight and whose load
\* of the Index succeeds answers 200 with exactly the recipes of those Index
\* ids whose record exists and decodes and whose fetch did not fail, in the
\* order of the Index; no step of a list changes the bucket.
C18_BestEffortList ==
  [][\A p \in Procs :
       /\ (proc[p].op = "list" /\ proc'[p] # proc[p]) =>
            (bucket' = bucket /\ proc'[p].writes = {})
       /\ (/\ proc[p].op = "list" /\ InFlight(p) /\ proc'[p].pc = "done"
           /\ proc'[p].solo /\ IndexKey \notin proc'[p].failed /\ IndexLoads) =>
            /\ proc'[p].status = 200
            /\ proc'[p].acc = Listed(bucket, IndexIds, proc'[p].failed)
    ]_vars

\* A list has been answered 200 with the one recipe of an Index of two ids:
\* the record of the first id does not decode.
C18_Witness ==
  \E p \in Procs :
    /\ Answered(p, "list") /\ proc[p].status = 200 /\ proc[p].failed = {}
    /\ Len(IndexIds) = 2 /\ Len(proc[p].acc) = 1
    /\ HasRecord(IndexIds[1]) /\ proc[p].acc[1].id = IndexIds[2]

(* ---------------------------- C19 --------------------------------------- *)

Statuses == {200, 201, 400, 404, 405, 500}

\* The next bucket call of request p, succeeding.
own_step(p) ==
  \/ list_recipes_load(p)
  \/ list_recipes_fetch(p)
  \/ get_recipe_read(p)
  \/ create_recipe_store(p)
  \/ add_recipe_id_load(p)
  \/ add_recipe_id_store(p)
  \/ update_recipe_store(p)
  \/ delete_recipe_remove(p)
  \/ remove_recipe_id_load(p)
  \/ remove_recipe_id_store(p)

\* The largest number of bucket calls a request of this kind makes: one for
\* get and update, three for create and delete, and for list one plus one
\* per id read from the Index.
MaxCalls(st) ==
  CASE st.op \in {"get", "update"} -> 1
    [] st.op \in {"create", "delete"} -> 3
    [] st.op = "list" -> 1 + Cardinality(AllIds)
    [] OTHER -> 0

\* A request in flight can always make its next bucket call, whatever the
\* other requests are doing; it has made no more calls than its kind allows
\* and, for a list, has no more calls left than ids to fetch; it has a status
\* exactly when it has its response, and the status is one of the six.
WaitFree ==
  \A p \in Procs :
    /\ InFlight(p) => (ENABLED own_step(p) /\ ENABLED store_fails(p))
    /\ proc[p].calls + Len(proc[p].ids) * (IF proc[p].pc = "list_fetch" THEN 1 ELSE 0)
         <= MaxCalls(proc[p])
    /\ proc[p].pc = "done" => proc[p].status \in Statuses
    /\ proc[p].pc # "done" => proc[p].status = 0

\* Every step of a request in flight is one bucket call, failed or not, and
\* takes it to its next call or to its response (inside the loop of list, to
\* the next id); a response, once set, stays as it is until Guest::handle
\* returns.
OneResponse ==
  \A p \in Procs :
    /\ (InFlight(p) /\ (proc'[p].pc # proc[p].pc \/ proc'[p].calls # proc[p].calls)) =>
          /\ proc'[p].calls = proc[p].calls + 1
          /\ proc'[p].pc = proc[p].pc => Len(proc'[p].ids) < Len(proc[p].ids)
    /\ proc[p].pc = "done" =>
          \/ proc'[p].pc = "done" /\ proc'[p].status = proc[p].status
          \/ proc'[p].pc = "idle"

\* C19: every request, under any interleaving and any pattern of failing
\* bucket calls, finishes after a bounded number of its own bucket calls
\* without waiting for a step of another request, and produces exactly one
\* response, with status 200, 201, 400, 404, 405 or 500.
C19_WaitFree == []WaitFree /\ [][OneResponse]_vars

\* A list has been answered 200 after skipping a fetch that failed, while a
\* create whose record write succeeded is still in flight.
C19_Witness ==
  \E p, q \in Procs :
    /\ Answered(p, "list") /\ proc[p].status = 200 /\ proc[p].failed # {}
    /\ proc[p].calls = 2
    /\ InFlight(q) /\ proc[q].op = "create" /\ proc[q].calls >= 1

(* ---------------------------- C20 --------------------------------------- *)

NoDuplicates(ids) ==
  \A i, j \in 1..Len(ids) : i # j => ids[i] # ids[j]

\* C20: from the empty bucket, in every reachable state under any
\* interleaving of requests (repeated creates of one id and lost index
\* updates included), the ID sequence under _recipe_ids holds each id at
\* most once.
C20_NoDuplicateIds == NoDuplicates(IndexIds)

\* After two creates of one id, one of them racing another create, the Index
\* holds two ids.
C20_Witness ==
  /\ raced
  /\ Len(IndexIds) = 2
  /\ \E e1, e2 \in stored : e1[1] = e2[1] /\ e1[2] # e2[2]

====
